---- MODULE Spec2Model ----
(***************************************************************************)
(* A model of statrs' FisherSnedecor and ChiSquared distributions          *)
(* (src/distribution/fisher_snedecor.rs, src/distribution/chi_squared.rs). *)
(*                                                                         *)
(* f64 values are modelled as the IEEE special values NaN, +INF, -INF and  *)
(* finite values (n/d)*sqrt(s), with n/d a rational in lowest terms and s  *)
(* a squarefree positive integer (s = 1 for a rational).  Finite           *)
(* arithmetic is exact: rounding and overflow of f64 are not modelled, and *)
(* zero carries no sign.  Underflow is modelled for the smallest positive *)
(* f64 values, the subnormals m * 2^-1074 with a small m: their products   *)
(* and quotients with a rational round to the nearest multiple of 2^-1074, *)
(* ties to even.  A result that is not of this form (a transcendental      *)
(* function, a function whose code is outside the two source files) is     *)
(* kept as an unevaluated term.                                            *)
(***************************************************************************)
EXTENDS Integers, Sequences, FiniteSets, TLC

VARIABLES fs, chi, res, pc, src, loc

vars == <<fs, chi, res, pc, src, loc>>

(***************************************************************************)
(* Bounds of the model                                                     *)
(***************************************************************************)
MaxFreedomHalves == 14

MaxXHalves == 4

MaxFreedomEighths == 20

MaxExact == 1000

MaxFact == 8

MaxSubnormal == 3

(***************************************************************************)
(* f64 values                                                              *)
(***************************************************************************)
Abs(i) == IF i < 0 THEN -i ELSE i

Sgn(i) == IF i < 0 THEN -1 ELSE IF i = 0 THEN 0 ELSE 1

RECURSIVE Gcd(_, _)
Gcd(a, b) == IF b = 0 THEN a ELSE Gcd(b, a % b)

NaN == [k |-> "nan", n |-> 0, d |-> 1, s |-> 1]

PInf == [k |-> "inf", n |-> 1, d |-> 1, s |-> 1]

NInf == [k |-> "inf", n |-> -1, d |-> 1, s |-> 1]

\* the finite value (n/d)*sqrt(s), d # 0, s squarefree
Fin(n, d, s) ==
    IF n = 0 THEN [k |-> "fin", n |-> 0, d |-> 1, s |-> 1]
    ELSE LET g == Gcd(Abs(n), Abs(d))
         IN [k |-> "fin", n |-> (Sgn(d) * n) \div g, d |-> Abs(d) \div g, s |-> s]

Rat(n, d) == Fin(n, d, 1)

Num(i) == Fin(i, 1, 1)

Term(op, args) == [k |-> "term", op |-> op, args |-> args]

IsNaN(v) == v.k = "nan"

IsInfinite(v) == v.k = "inf"

IsFinite(v) == v.k = "fin"

IsTerm(v) == v.k = "term"

\* the subnormal f64 m * 2^-1074, for a small integer m >= 1
Subnormal(m) == Term("2^-1074", <<m>>)

\* the smallest positive f64 (the subnormal with bit pattern 1)
MinSubnormal == Subnormal(1)

IsSubnormal(v) == IsTerm(v) /\ v.op = "2^-1074"

\* n / d rounded to the nearest integer, ties to even (n >= 0, d > 0)
RoundEven(n, d) ==
    LET q == n \div d
        r == n % d
    IN IF 2 * r < d THEN q
       ELSE IF 2 * r > d THEN q + 1
       ELSE IF q % 2 = 0 THEN q
       ELSE q + 1

\* the f64 nearest to m * 2^-1074 * (n / d), for n / d > 0 of moderate size
Scaled(m, n, d) ==
    LET q == RoundEven(m * n, d)
    IN IF q = 0 THEN Num(0) ELSE Subnormal(q)

InfOf(sign) == IF sign < 0 THEN NInf ELSE PInf

\* the largest r with r*r dividing m (m >= 1), by trial division from i on
RECURSIVE SqScan(_, _, _)
SqScan(m, i, acc) ==
    IF i * i > m THEN acc
    ELSE IF m % (i * i) = 0 THEN SqScan(m \div (i * i), i, acc * i)
    ELSE IF m % i = 0 THEN SqScan(m \div i, i + 1, acc)
    ELSE SqScan(m, i + 1, acc)

SqPart(m) == SqScan(m, 2, 1)

\* -1, 0 or 1 as a < b, a = b or a > b, for finite or infinite a and b; a
\* subnormal is positive and below every positive value n/d of the model
Cmp(a, b) ==
    IF IsSubnormal(a) /\ IsSubnormal(b) THEN Sgn(a.args[1] - b.args[1])
    ELSE IF IsSubnormal(a) THEN (IF b.n > 0 THEN -1 ELSE 1)
    ELSE IF IsSubnormal(b) THEN (IF a.n > 0 THEN 1 ELSE -1)
    ELSE IF IsInfinite(a) \/ IsInfinite(b)
    THEN Sgn((IF IsInfinite(a) THEN 2 * a.n ELSE Sgn(a.n))
             - (IF IsInfinite(b) THEN 2 * b.n ELSE Sgn(b.n)))
    ELSE IF a.s = b.s THEN Sgn(a.n * b.d - b.n * a.d)
    ELSE IF Sgn(a.n) # Sgn(b.n) THEN Sgn(Sgn(a.n) - Sgn(b.n))
    ELSE Sgn(a.n) * Sgn(a.n * a.n * a.s * b.d * b.d - b.n * b.n * b.s * a.d * a.d)

Ordered(a, b) ==
    /\ a.k \in {"fin", "inf"} \/ IsSubnormal(a)
    /\ b.k \in {"fin", "inf"} \/ IsSubnormal(b)

\* the f64 comparisons: false when an operand is NaN
Lt(a, b) == Ordered(a, b) /\ Cmp(a, b) < 0

Le(a, b) == Ordered(a, b) /\ Cmp(a, b) <= 0

Gt(a, b) == Ordered(a, b) /\ Cmp(a, b) > 0

Ge(a, b) == Ordered(a, b) /\ Cmp(a, b) >= 0

Neg(a) ==
    IF IsNaN(a) THEN NaN
    ELSE IF IsTerm(a) THEN Term("neg", <<a>>)
    ELSE [a EXCEPT !.n = -a.n]

Add(a, b) ==
    IF IsNaN(a) \/ IsNaN(b) THEN NaN
    ELSE IF IsTerm(a) \/ IsTerm(b) THEN Term("add", <<a, b>>)
    ELSE IF IsInfinite(a) /\ IsInfinite(b) THEN (IF a.n = b.n THEN a ELSE NaN)
    ELSE IF IsInfinite(a) THEN a
    ELSE IF IsInfinite(b) THEN b
    ELSE IF a.n = 0 THEN b
    ELSE IF b.n = 0 THEN a
    ELSE IF a.s = b.s THEN Fin(a.n * b.d + b.n * a.d, a.d * b.d, a.s)
    ELSE Term("add", <<a, b>>)

Sub(a, b) == Add(a, Neg(b))

Mul(a, b) ==
    IF IsNaN(a) \/ IsNaN(b) THEN NaN
    ELSE IF IsSubnormal(a) /\ IsFinite(b) /\ b.s = 1 /\ b.n > 0
         THEN Scaled(a.args[1], b.n, b.d)
    ELSE IF IsSubnormal(b) /\ IsFinite(a) /\ a.s = 1 /\ a.n > 0
         THEN Scaled(b.args[1], a.n, a.d)
    ELSE IF IsTerm(a) \/ IsTerm(b) THEN Term("mul", <<a, b>>)
    ELSE IF IsInfinite(a) \/ IsInfinite(b)
         THEN (IF a.n = 0 \/ b.n = 0 THEN NaN ELSE InfOf(Sgn(a.n) * Sgn(b.n)))
    ELSE LET g == Gcd(a.s, b.s)
         IN Fin(a.n * b.n * g, a.d * b.d, (a.s \div g) * (b.s \div g))

Div(a, b) ==
    IF IsNaN(a) \/ IsNaN(b) THEN NaN
    ELSE IF IsSubnormal(a) /\ IsInfinite(b) THEN Num(0)
    ELSE IF IsSubnormal(a) /\ IsFinite(b) /\ b.n = 0 THEN PInf
    ELSE IF IsSubnormal(a) /\ IsFinite(b) /\ b.s = 1 /\ b.n > 0
         THEN Scaled(a.args[1], b.d, b.n)
    ELSE IF IsTerm(a) \/ IsTerm(b) THEN Term("div", <<a, b>>)
    ELSE IF IsInfinite(a)
         THEN (IF IsInfinite(b) THEN NaN ELSE InfOf(a.n * (IF b.n < 0 THEN -1 ELSE 1)))
    ELSE IF IsInfinite(b) THEN Num(0)
    ELSE IF b.n = 0 THEN (IF a.n = 0 THEN NaN ELSE InfOf(a.n))
    ELSE Mul(a, Fin(Sgn(b.n) * b.d, Abs(b.n) * b.s, b.s))

Sqrt(a) ==
    IF IsNaN(a) THEN NaN
    ELSE IF IsTerm(a) THEN Term("sqrt", <<a>>)
    ELSE IF a.n < 0 THEN NaN
    ELSE IF IsInfinite(a) THEN PInf
    ELSE IF a.n = 0 THEN Num(0)
    ELSE IF a.s # 1 THEN Term("sqrt", <<a>>)
    ELSE LET p == SqPart(a.n)
             q == SqPart(a.d)
             rn == a.n \div (p * p)
             rd == a.d \div (q * q)
         IN Fin(p, q * rd, rn * rd)

Ln(a) ==
    IF IsNaN(a) THEN NaN
    ELSE IF IsTerm(a) THEN Term("ln", <<a>>)
    ELSE IF a.n < 0 THEN NaN
    ELSE IF IsInfinite(a) THEN PInf
    ELSE IF a.n = 0 THEN NInf
    ELSE IF a = Num(1) THEN Num(0)
    ELSE Term("ln", <<a>>)

\* f64::powf for the cases with an exact result; MaxExact bounds the integers
\* the model evaluates, and a larger power stays an unevaluated term
RECURSIVE PowCap(_, _)
PowCap(n, e) ==
    IF e = 0 THEN 1
    ELSE LET p == PowCap(n, e - 1)
         IN IF n = 0 THEN 0
            ELSE IF p > MaxExact \div n THEN MaxExact + 1
            ELSE p * n

IsInt(a) == IsFinite(a) /\ a.d = 1 /\ a.s = 1

Powf(a, b) ==
    IF IsFinite(b) /\ b.n = 0 THEN Num(1)
    ELSE IF a = Num(1) THEN Num(1)
    ELSE IF IsNaN(a) \/ IsNaN(b) THEN NaN
    ELSE IF IsTerm(a) \/ IsTerm(b) THEN Term("powf", <<a, b>>)
    ELSE IF IsInfinite(b)
         THEN (IF a = Num(-1) THEN Num(1)
               ELSE IF (IsInfinite(a) \/ Abs(a.n) > a.d) = (b.n > 0) THEN PInf
               ELSE Num(0))
    ELSE IF IsInfinite(a)
         THEN (IF b.n < 0 THEN Num(0)
               ELSE IF a.n < 0 /\ IsInt(b) /\ b.n % 2 = 1 THEN NInf
               ELSE PInf)
    ELSE IF a.n = 0 THEN (IF b.n < 0 THEN PInf ELSE Num(0))
    ELSE IF ~IsInt(b) THEN (IF a.n < 0 THEN NaN ELSE Term("powf", <<a, b>>))
    ELSE IF a.s # 1 THEN Term("powf", <<a, b>>)
    ELSE LET e == Abs(b.n)
             pn == PowCap(Abs(a.n), e)
             pd == PowCap(a.d, e)
             sg == IF a.n < 0 /\ e % 2 = 1 THEN -1 ELSE 1
         IN IF pn > MaxExact \/ pd > MaxExact THEN Term("powf", <<a, b>>)
            ELSE IF b.n > 0 THEN Rat(sg * pn, pd)
            ELSE Rat(sg * pd, pn)

(***************************************************************************)
(* Results of a call: a value, a panic, or a Result (Ok / Err), together   *)
(* with the calls it made to functions outside the two source files.       *)
(***************************************************************************)
NoObj == [tag |-> "none"]

Value(v, cs) == [tag |-> "value", v |-> v, calls |-> cs]

Panicked(cs) == [tag |-> "panic", v |-> NaN, calls |-> cs]

Ok(obj, cs) == [tag |-> "Ok", v |-> obj, calls |-> cs]

Err(cs) == [tag |-> "Err", v |-> NoObj, calls |-> cs]

Call(f, args) == [f |-> f, args |-> args]

(***************************************************************************)
(* function::beta, whose code is outside the two source files              *)
(***************************************************************************)
RECURSIVE Fact(_)
Fact(i) == IF i <= 1 THEN 1 ELSE i * Fact(i - 1)

\* B(a, b) = Gamma(a) * Gamma(b) / Gamma(a + b), for a, b > 0
beta(a, b) ==
    IF IsNaN(a) \/ IsNaN(b) THEN Value(NaN, <<>>)
    ELSE IF ~Gt(a, Num(0)) \/ ~Gt(b, Num(0)) THEN Panicked(<<>>)
    ELSE IF IsInt(a) /\ IsInt(b) /\ a.n + b.n <= MaxFact
         THEN Value(Rat(Fact(a.n - 1) * Fact(b.n - 1), Fact(a.n + b.n - 1)), <<>>)
    ELSE Value(Term("beta", <<a, b>>), <<>>)

\* I_x(a, b) for a, b > 0 and 0 <= x <= 1: exactly 0 at x = 0 and 1 at x = 1
beta_reg(a, b, x) ==
    IF IsNaN(a) \/ IsNaN(b) \/ IsNaN(x) THEN Value(NaN, <<>>)
    ELSE IF ~Gt(a, Num(0)) \/ ~Gt(b, Num(0)) THEN Panicked(<<>>)
    ELSE IF ~(Ge(x, Num(0)) /\ Le(x, Num(1))) THEN Panicked(<<>>)
    ELSE IF x = Num(0) \/ x = Num(1) THEN Value(x, <<>>)
    ELSE IF IsInfinite(a) \/ IsInfinite(b) THEN Value(NaN, <<>>)
    ELSE Value(Term("beta_reg", <<a, b, x>>), <<>>)

(***************************************************************************)
(* FisherSnedecor                                                          *)
(***************************************************************************)
FisherSnedecor(freedom_1, freedom_2) ==
    [tag |-> "FisherSnedecor", freedom_1 |-> freedom_1, freedom_2 |-> freedom_2]

\* a variant that rejects only negative degrees of freedom
FisherSnedecor_new_lt(freedom_1, freedom_2) ==
    IF IsNaN(freedom_1) \/ IsNaN(freedom_2) THEN Err(<<>>)
    ELSE IF Lt(freedom_1, Num(0)) \/ Lt(freedom_2, Num(0)) THEN Err(<<>>)
    ELSE Ok(FisherSnedecor(freedom_1, freedom_2), <<>>)

FisherSnedecor_new(freedom_1, freedom_2) ==
    IF IsNaN(freedom_1) \/ IsNaN(freedom_2) THEN Err(<<>>)
    ELSE IF Le(freedom_1, Num(0)) \/ Le(freedom_2, Num(0)) THEN Err(<<>>)
    ELSE Ok(FisherSnedecor(freedom_1, freedom_2), <<>>)

FisherSnedecor_freedom_1(self) == Value(self.freedom_1, <<>>)

FisherSnedecor_freedom_2(self) == Value(self.freedom_2, <<>>)

\* a variant without the x.is_infinite() test
FisherSnedecor_cdf_any_x(self, x) ==
    IF self.freedom_1 = PInf \/ self.freedom_2 = PInf
    THEN Value(NaN, <<>>)
    ELSE LET a == Div(self.freedom_1, Num(2))
             b == Div(self.freedom_2, Num(2))
             z == Div(Mul(self.freedom_1, x), Add(Mul(self.freedom_1, x), self.freedom_2))
             r == beta_reg(a, b, z)
         IN [r EXCEPT !.calls = <<Call("beta_reg", <<a, b, z>>)>> \o r.calls]

\* a variant that hands beta_reg the complement d2 / (d1 * x + d2)
FisherSnedecor_cdf_complement(self, x) ==
    IF self.freedom_1 = PInf \/ self.freedom_2 = PInf \/ IsInfinite(x)
    THEN Value(NaN, <<>>)
    ELSE LET a == Div(self.freedom_1, Num(2))
             b == Div(self.freedom_2, Num(2))
             z == Div(self.freedom_2, Add(Mul(self.freedom_1, x), self.freedom_2))
             r == beta_reg(a, b, z)
         IN [r EXCEPT !.calls = <<Call("beta_reg", <<a, b, z>>)>> \o r.calls]

\* a variant that hands beta_reg the ratio d1 * x / d2
FisherSnedecor_cdf_ratio(self, x) ==
    IF self.freedom_1 = PInf \/ self.freedom_2 = PInf \/ IsInfinite(x)
    THEN Value(NaN, <<>>)
    ELSE LET a == Div(self.freedom_1, Num(2))
             b == Div(self.freedom_2, Num(2))
             z == Div(Mul(self.freedom_1, x), self.freedom_2)
             r == beta_reg(a, b, z)
         IN [r EXCEPT !.calls = <<Call("beta_reg", <<a, b, z>>)>> \o r.calls]

FisherSnedecor_cdf(self, x) ==
    IF self.freedom_1 = PInf \/ self.freedom_2 = PInf \/ IsInfinite(x)
    THEN Value(NaN, <<>>)
    ELSE LET a == Div(self.freedom_1, Num(2))
             b == Div(self.freedom_2, Num(2))
             z == Div(Mul(self.freedom_1, x), Add(Mul(self.freedom_1, x), self.freedom_2))
             r == beta_reg(a, b, z)
         IN [r EXCEPT !.calls = <<Call("beta_reg", <<a, b, z>>)>> \o r.calls]

\* a variant whose support is unbounded below
FisherSnedecor_min_neg_inf(self) == Value(NInf, <<>>)

FisherSnedecor_min(self) == Value(Num(0), <<>>)

FisherSnedecor_max(self) == Value(PInf, <<>>)

\* a variant that divides by freedom_1 - 2
FisherSnedecor_mean_d1(self) ==
    IF ~Gt(self.freedom_2, Num(2)) THEN Panicked(<<>>)
    ELSE Value(Div(self.freedom_2, Sub(self.freedom_1, Num(2))), <<>>)

FisherSnedecor_mean(self) ==
    IF ~Gt(self.freedom_2, Num(2)) THEN Panicked(<<>>)
    ELSE Value(Div(self.freedom_2, Sub(self.freedom_2, Num(2))), <<>>)

FisherSnedecor_variance(self) ==
    IF ~Gt(self.freedom_2, Num(4)) THEN Panicked(<<>>)
    ELSE LET d1 == self.freedom_1
             d2 == self.freedom_2
         IN Value(Div(Mul(Mul(Mul(Num(2), d2), d2), Sub(Add(d1, d2), Num(2))),
                      Mul(Mul(Mul(d1, Sub(d2, Num(2))), Sub(d2, Num(2))), Sub(d2, Num(4)))),
                  <<>>)

FisherSnedecor_std_dev(self) ==
    LET r == FisherSnedecor_variance(self)
    IN IF r.tag = "panic" THEN r ELSE Value(Sqrt(r.v), r.calls)

\* a variant whose assertion is freedom_2 >= 6.0
FisherSnedecor_skewness_ge(self) ==
    IF ~Ge(self.freedom_2, Num(6)) THEN Panicked(<<>>)
    ELSE LET d1 == self.freedom_1
             d2 == self.freedom_2
         IN Value(Div(Mul(Sub(Add(Mul(Num(2), d1), d2), Num(2)),
                          Sqrt(Mul(Num(8), Sub(d2, Num(4))))),
                      Mul(Sub(d2, Num(6)),
                          Sqrt(Mul(d1, Sub(Add(d1, d2), Num(2)))))),
                  <<>>)

FisherSnedecor_skewness(self) ==
    IF ~Gt(self.freedom_2, Num(6)) THEN Panicked(<<>>)
    ELSE LET d1 == self.freedom_1
             d2 == self.freedom_2
         IN Value(Div(Mul(Sub(Add(Mul(Num(2), d1), d2), Num(2)),
                          Sqrt(Mul(Num(8), Sub(d2, Num(4))))),
                      Mul(Sub(d2, Num(6)),
                          Sqrt(Mul(d1, Sub(Add(d1, d2), Num(2)))))),
                  <<>>)

\* a variant that evaluates the formula as (1 - 2 / d1) * (d2 / (d2 + 2))
FisherSnedecor_mode_factored(self) ==
    IF ~Gt(self.freedom_1, Num(2)) THEN Panicked(<<>>)
    ELSE LET d1 == self.freedom_1
             d2 == self.freedom_2
         IN Value(Mul(Sub(Num(1), Div(Num(2), d1)), Div(d2, Add(d2, Num(2)))), <<>>)

FisherSnedecor_mode(self) ==
    IF ~Gt(self.freedom_1, Num(2)) THEN Panicked(<<>>)
    ELSE LET d1 == self.freedom_1
             d2 == self.freedom_2
         IN Value(Div(Mul(d2, Sub(d1, Num(2))), Mul(d1, Add(d2, Num(2)))), <<>>)

FisherSnedecor_pdf(self, x) ==
    LET d1 == self.freedom_1
        d2 == self.freedom_2
        a == Div(d1, Num(2))
        b == Div(d2, Num(2))
        root == Sqrt(Div(Mul(Powf(Mul(d1, x), d1), Powf(d2, d2)),
                         Powf(Add(Mul(d1, x), d2), Add(d1, d2))))
        r == beta(a, b)
        cs == <<Call("beta", <<a, b>>)>> \o r.calls
    IN IF r.tag = "panic" THEN Panicked(cs)
       ELSE Value(Div(root, Mul(x, r.v)), cs)

FisherSnedecor_ln_pdf(self, x) ==
    LET r == FisherSnedecor_pdf(self, x)
    IN IF r.tag = "panic" THEN r ELSE Value(Ln(r.v), r.calls)

(***************************************************************************)
(* The randomness source and distribution::gamma, whose code is outside    *)
(* the two source files.  A source is a deterministic stream: seed is what *)
(* it was created from, pos counts the uniform/normal values taken from    *)
(* it, log lists the Gamma draws made from it.                             *)
(***************************************************************************)
Source(seed) == [seed |-> seed, pos |-> 0, log |-> <<>>]

\* rounds of the Marsaglia-Tsang rejection loop at this state of the source
Rounds(r) == 1 + ((r.seed + r.pos) % 2)

\* gamma::sample_unchecked(r, shape, rate): no validation; each round takes a
\* normal and a uniform value, and shape < 1 takes one more uniform value
sample_unchecked(r, shape, rate) ==
    LET used == 2 * Rounds(r) + (IF Lt(shape, Num(1)) THEN 1 ELSE 0)
    IN [v |-> Term("gamma_variate", <<shape, rate, Num(r.seed), Num(r.pos)>>),
        src |-> [r EXCEPT !.pos = r.pos + used,
                          !.log = Append(r.log, <<shape, rate>>)]]

Gamma(shape, rate) == [tag |-> "Gamma", shape |-> shape, rate |-> rate]

Gamma_new(shape, rate) ==
    IF IsNaN(shape) \/ IsNaN(rate) THEN Err(<<>>)
    ELSE IF Le(shape, Num(0)) \/ Le(rate, Num(0)) THEN Err(<<>>)
    ELSE Ok(Gamma(shape, rate), <<>>)

Gamma_shape(g) == Value(g.shape, <<>>)

Gamma_rate(g) == Value(g.rate, <<>>)

Gamma_sample(g, r) == sample_unchecked(r, g.shape, g.rate)

\* the regularized lower incomplete gamma function of (shape, x * rate)
Gamma_cdf(g, x) ==
    IF IsNaN(x) THEN Value(NaN, <<>>)
    ELSE IF Lt(x, Num(0)) THEN Panicked(<<>>)
    ELSE IF x = Num(0) THEN Value(Num(0), <<>>)
    ELSE Value(Term("gamma_lower_reg", <<g.shape, Mul(x, g.rate)>>), <<>>)

Gamma_pdf(g, x) ==
    IF IsNaN(x) THEN Value(NaN, <<>>)
    ELSE IF Lt(x, Num(0)) THEN Panicked(<<>>)
    ELSE Value(Term("Gamma::pdf", <<g.shape, g.rate, x>>), <<>>)

Gamma_ln_pdf(g, x) ==
    IF IsNaN(x) THEN Value(NaN, <<>>)
    ELSE IF Lt(x, Num(0)) THEN Panicked(<<>>)
    ELSE Value(Term("Gamma::ln_pdf", <<g.shape, g.rate, x>>), <<>>)

Gamma_mean(g) == Value(Div(g.shape, g.rate), <<>>)

Gamma_variance(g) == Value(Div(g.shape, Mul(g.rate, g.rate)), <<>>)

Gamma_std_dev(g) == Value(Sqrt(Div(g.shape, Mul(g.rate, g.rate))), <<>>)

Gamma_entropy(g) == Value(Term("Gamma::entropy", <<g.shape, g.rate>>), <<>>)

Gamma_skewness(g) == Value(Div(Num(2), Sqrt(g.shape)), <<>>)

Gamma_mode(g) == Value(Div(Sub(g.shape, Num(1)), g.rate), <<>>)

\* r with one more call, of function f on inner value g, at the front of its calls
Via(f, args, r) == [r EXCEPT !.calls = <<Call(f, args)>> \o r.calls]

(***************************************************************************)
(* FisherSnedecor: sampling                                                *)
(***************************************************************************)
\* a variant that draws with shape freedom_2 / 2 first
FisherSnedecor_sample_g1_d2(self, r) ==
    sample_unchecked(r, Div(self.freedom_2, Num(2)), Rat(1, 2))

\* the first operand of the quotient: the draw with shape freedom_1 / 2
FisherSnedecor_sample_g1(self, r) ==
    sample_unchecked(r, Div(self.freedom_1, Num(2)), Rat(1, 2))

\* the second operand: the draw with shape freedom_2 / 2
FisherSnedecor_sample_g2(self, r) ==
    sample_unchecked(r, Div(self.freedom_2, Num(2)), Rat(1, 2))

FisherSnedecor_sample_ret(self, g1, g2) ==
    Div(Mul(g1, self.freedom_2), Mul(g2, self.freedom_1))

\* Distribution::sample run from start to end on source r
FisherSnedecor_sample(self, r) ==
    LET a == FisherSnedecor_sample_g1(self, r)
        b == FisherSnedecor_sample_g2(self, a.src)
    IN [v |-> FisherSnedecor_sample_ret(self, a.v, b.v), src |-> b.src]

(***************************************************************************)
(* ChiSquared                                                              *)
(***************************************************************************)
ChiSquared(freedom, g) == [tag |-> "ChiSquared", freedom |-> freedom, g |-> g]

ChiSquared_new(freedom) ==
    LET shape == Div(freedom, Num(2))
        r == Gamma_new(shape, Rat(1, 2))
        cs == <<Call("Gamma::new", <<shape, Rat(1, 2)>>)>>
    IN IF r.tag = "Ok" THEN Ok(ChiSquared(freedom, r.v), cs) ELSE Err(cs)

ChiSquared_freedom(self) == Value(self.freedom, <<>>)

ChiSquared_shape(self) == Via("Gamma::shape", <<self.g>>, Gamma_shape(self.g))

ChiSquared_rate(self) == Via("Gamma::rate", <<self.g>>, Gamma_rate(self.g))

ChiSquared_sample(self, r) == Gamma_sample(self.g, r)

ChiSquared_cdf(self, x) == Via("Gamma::cdf", <<self.g, x>>, Gamma_cdf(self.g, x))

ChiSquared_min(self) == Value(Num(0), <<>>)

ChiSquared_max(self) == Value(PInf, <<>>)

ChiSquared_mean(self) == Via("Gamma::mean", <<self.g>>, Gamma_mean(self.g))

ChiSquared_variance(self) == Via("Gamma::variance", <<self.g>>, Gamma_variance(self.g))

\* a variant that asks the inner Gamma for its variance
ChiSquared_std_dev_variance(self) ==
    Via("Gamma::variance", <<self.g>>, Gamma_variance(self.g))

ChiSquared_std_dev(self) == Via("Gamma::std_dev", <<self.g>>, Gamma_std_dev(self.g))

ChiSquared_entropy(self) == Via("Gamma::entropy", <<self.g>>, Gamma_entropy(self.g))

ChiSquared_skewness(self) == Via("Gamma::skewness", <<self.g>>, Gamma_skewness(self.g))

\* a variant whose test is freedom <= 1.0
ChiSquared_median_le(self) ==
    IF Le(self.freedom, Num(1))
    THEN Value(Sub(Add(Sub(self.freedom, Div(Num(2), Num(3))),
                       Div(Num(12), Mul(Num(81), self.freedom))),
                   Div(Num(8), Mul(Mul(Num(729), self.freedom), self.freedom))),
               <<>>)
    ELSE Value(Sub(self.freedom, Div(Num(2), Num(3))), <<>>)

ChiSquared_median(self) ==
    IF Lt(self.freedom, Num(1))
    THEN Value(Sub(Add(Sub(self.freedom, Div(Num(2), Num(3))),
                       Div(Num(12), Mul(Num(81), self.freedom))),
                   Div(Num(8), Mul(Mul(Num(729), self.freedom), self.freedom))),
               <<>>)
    ELSE Value(Sub(self.freedom, Div(Num(2), Num(3))), <<>>)

\* the formula the documentation of median gives: k * (1 - (2 / 9k))^3
ChiSquared_median_doc(k) ==
    LET b == Sub(Num(1), Div(Num(2), Mul(Num(9), k)))
    IN Mul(k, Mul(Mul(b, b), b))

ChiSquared_mode(self) == Via("Gamma::mode", <<self.g>>, Gamma_mode(self.g))

ChiSquared_pdf(self, x) == Via("Gamma::pdf", <<self.g, x>>, Gamma_pdf(self.g, x))

ChiSquared_ln_pdf(self, x) == Via("Gamma::ln_pdf", <<self.g, x>>, Gamma_ln_pdf(self.g, x))

(***************************************************************************)
(* Inputs                                                                  *)
(***************************************************************************)
Specials == {NaN, NInf, PInf}

\* degrees of freedom offered to FisherSnedecor::new: -1, -1/2, 0, 1/2, ...
Freedoms == Specials \cup {Rat(i, 2) : i \in -2..MaxFreedomHalves}

\* degrees of freedom offered to ChiSquared::new: the smallest positive f64
\* values and -1/4, -1/8, 0, 1/8, ...
ChiFreedoms ==
    Specials \cup {Subnormal(m) : m \in 1..MaxSubnormal}
             \cup {Rat(i, 8) : i \in -2..MaxFreedomEighths}

\* arguments offered to cdf, pdf and ln_pdf
Xs == Specials \cup {Rat(i, 2) : i \in -MaxXHalves..MaxXHalves}

\* the callers that sample, each with a randomness source of its own
Threads == {"t1", "t2"}

\* each caller's source is created from a seed of its own
SeedOf(t) == IF t = "t1" THEN 0 ELSE 1

\* the three ways into sampling: Sample::sample, IndependentSample::ind_sample
\* and Distribution::sample
Entries == {"Sample::sample", "IndependentSample::ind_sample", "Distribution::sample"}

\* degrees of freedom of the values a caller constructs for itself to sample
OwnFreedoms == {Rat(1, 2), Num(1), Num(3), PInf}

NoRes == [op |-> "none", obj |-> NoObj, args |-> <<>>, out |-> Value(NaN, <<>>)]

Result(op, obj, args, out) == [op |-> op, obj |-> obj, args |-> args, out |-> out]

NoLoc == [entry |-> "none", self |-> NoObj, g1 |-> NaN, g2 |-> NaN, ret |-> NaN]

(***************************************************************************)
(* Construction.  The model follows one distribution value through its     *)
(* life: fs or chi is constructed once, and is never changed afterwards.   *)
(***************************************************************************)
FsNew ==
    \E d1 \in Freedoms, d2 \in Freedoms :
        LET r == FisherSnedecor_new(d1, d2)
        IN /\ fs = NoObj
           /\ chi = NoObj
           /\ res' = Result("FisherSnedecor::new", NoObj, <<d1, d2>>, r)
           /\ fs' = IF r.tag = "Ok" THEN r.v ELSE fs
           /\ UNCHANGED <<chi, pc, src, loc>>

ChiNew ==
    \E k \in ChiFreedoms :
        LET r == ChiSquared_new(k)
        IN /\ fs = NoObj
           /\ chi = NoObj
           /\ res' = Result("ChiSquared::new", NoObj, <<k>>, r)
           /\ chi' = IF r.tag = "Ok" THEN r.v ELSE chi
           /\ UNCHANGED <<fs, pc, src, loc>>

(***************************************************************************)
(* Queries on the FisherSnedecor value fs                                  *)
(***************************************************************************)
FsQuery(op, args, out) ==
    /\ fs # NoObj
    /\ res' = Result(op, fs, args, out)
    /\ UNCHANGED <<fs, chi, pc, src, loc>>

FsFreedom1 == FsQuery("freedom_1", <<>>, FisherSnedecor_freedom_1(fs))

FsFreedom2 == FsQuery("freedom_2", <<>>, FisherSnedecor_freedom_2(fs))

FsCdf == \E x \in Xs : FsQuery("cdf", <<x>>, FisherSnedecor_cdf(fs, x))

FsMin == FsQuery("min", <<>>, FisherSnedecor_min(fs))

FsMax == FsQuery("max", <<>>, FisherSnedecor_max(fs))

FsMean == FsQuery("mean", <<>>, FisherSnedecor_mean(fs))

FsVariance == FsQuery("variance", <<>>, FisherSnedecor_variance(fs))

FsStdDev == FsQuery("std_dev", <<>>, FisherSnedecor_std_dev(fs))

FsSkewness == FsQuery("skewness", <<>>, FisherSnedecor_skewness(fs))

FsMode == FsQuery("mode", <<>>, FisherSnedecor_mode(fs))

FsPdf == \E x \in Xs : FsQuery("pdf", <<x>>, FisherSnedecor_pdf(fs, x))

FsLnPdf == \E x \in Xs : FsQuery("ln_pdf", <<x>>, FisherSnedecor_ln_pdf(fs, x))

(***************************************************************************)
(* Queries on the ChiSquared value chi                                     *)
(***************************************************************************)
ChiQuery(op, args, out) ==
    /\ chi # NoObj
    /\ res' = Result(op, chi, args, out)
    /\ UNCHANGED <<fs, chi, pc, src, loc>>

ChiFreedom == ChiQuery("freedom", <<>>, ChiSquared_freedom(chi))

ChiShape == ChiQuery("shape", <<>>, ChiSquared_shape(chi))

ChiRate == ChiQuery("rate", <<>>, ChiSquared_rate(chi))

ChiCdf == \E x \in Xs : ChiQuery("cdf", <<x>>, ChiSquared_cdf(chi, x))

ChiMin == ChiQuery("min", <<>>, ChiSquared_min(chi))

ChiMax == ChiQuery("max", <<>>, ChiSquared_max(chi))

ChiMean == ChiQuery("mean", <<>>, ChiSquared_mean(chi))

ChiVariance == ChiQuery("variance", <<>>, ChiSquared_variance(chi))

ChiStdDev == ChiQuery("std_dev", <<>>, ChiSquared_std_dev(chi))

ChiEntropy == ChiQuery("entropy", <<>>, ChiSquared_entropy(chi))

ChiSkewness == ChiQuery("skewness", <<>>, ChiSquared_skewness(chi))

ChiMedian == ChiQuery("median", <<>>, ChiSquared_median(chi))

ChiMode == ChiQuery("mode", <<>>, ChiSquared_mode(chi))

ChiPdf == \E x \in Xs : ChiQuery("pdf", <<x>>, ChiSquared_pdf(chi, x))

ChiLnPdf == \E x \in Xs : ChiQuery("ln_pdf", <<x>>, ChiSquared_ln_pdf(chi, x))

(***************************************************************************)
(* Sampling.  A caller t enters through one of the three entries, which    *)
(* all run Distribution::sample on self with the caller's source src[t];   *)
(* the Gamma draws of one call are separate steps.                         *)
(***************************************************************************)
\* caller t constructs a FisherSnedecor of its own and samples it
FsSampleOwn(t) ==
    \E e \in Entries, d1 \in OwnFreedoms, d2 \in OwnFreedoms :
        LET n == FisherSnedecor_new(d1, d2)
        IN /\ pc[t] = "idle"
           /\ n.tag = "Ok"
           /\ pc' = [pc EXCEPT ![t] = "fs_g1"]
           /\ loc' = [loc EXCEPT ![t] = [NoLoc EXCEPT !.entry = e, !.self = n.v]]
           /\ UNCHANGED <<fs, chi, res, src>>

\* caller t constructs a ChiSquared of its own and samples it
ChiSampleOwn(t) ==
    \E e \in Entries, k \in OwnFreedoms :
        LET n == ChiSquared_new(k)
        IN /\ pc[t] = "idle"
           /\ n.tag = "Ok"
           /\ pc' = [pc EXCEPT ![t] = "chi_g"]
           /\ loc' = [loc EXCEPT ![t] = [NoLoc EXCEPT !.entry = e, !.self = n.v]]
           /\ UNCHANGED <<fs, chi, res, src>>

\* a variant in which Sample::sample, which borrows the value mutably, swaps
\* its two parameters
FsSampleCall_swaps(t) ==
    \E e \in Entries :
        /\ pc[t] = "idle"
        /\ fs # NoObj
        /\ pc' = [pc EXCEPT ![t] = "fs_g1"]
        /\ loc' = [loc EXCEPT ![t] = [NoLoc EXCEPT !.entry = e, !.self = fs]]
        /\ fs' = IF e = "Sample::sample"
                 THEN FisherSnedecor(fs.freedom_2, fs.freedom_1)
                 ELSE fs
        /\ UNCHANGED <<chi, res, src>>

FsSampleCall(t) ==
    \E e \in Entries :
        /\ pc[t] = "idle"
        /\ fs # NoObj
        /\ pc' = [pc EXCEPT ![t] = "fs_g1"]
        /\ loc' = [loc EXCEPT ![t] = [NoLoc EXCEPT !.entry = e, !.self = fs]]
        /\ UNCHANGED <<fs, chi, res, src>>

FsSampleG1(t) ==
    /\ pc[t] = "fs_g1"
    /\ LET d == FisherSnedecor_sample_g1(loc[t].self, src[t])
       IN /\ src' = [src EXCEPT ![t] = d.src]
          /\ loc' = [loc EXCEPT ![t].g1 = d.v]
    /\ pc' = [pc EXCEPT ![t] = "fs_g2"]
    /\ UNCHANGED <<fs, chi, res>>

\* a variant whose second draw is made from one source shared by all callers
FsSampleG2_shared(t) ==
    /\ pc[t] = "fs_g2"
    /\ LET d == FisherSnedecor_sample_g2(loc[t].self, src["t1"])
       IN /\ src' = [src EXCEPT !["t1"] = d.src]
          /\ loc' = [loc EXCEPT ![t].g2 = d.v]
    /\ pc' = [pc EXCEPT ![t] = "fs_ret"]
    /\ UNCHANGED <<fs, chi, res>>

FsSampleG2(t) ==
    /\ pc[t] = "fs_g2"
    /\ LET d == FisherSnedecor_sample_g2(loc[t].self, src[t])
       IN /\ src' = [src EXCEPT ![t] = d.src]
          /\ loc' = [loc EXCEPT ![t].g2 = d.v]
    /\ pc' = [pc EXCEPT ![t] = "fs_ret"]
    /\ UNCHANGED <<fs, chi, res>>

FsSampleRet(t) ==
    /\ pc[t] = "fs_ret"
    /\ loc' = [loc EXCEPT ![t].ret =
                  FisherSnedecor_sample_ret(loc[t].self, loc[t].g1, loc[t].g2)]
    /\ pc' = [pc EXCEPT ![t] = "done"]
    /\ UNCHANGED <<fs, chi, res, src>>

ChiSampleCall(t) ==
    \E e \in Entries :
        /\ pc[t] = "idle"
        /\ chi # NoObj
        /\ pc' = [pc EXCEPT ![t] = "chi_g"]
        /\ loc' = [loc EXCEPT ![t] = [NoLoc EXCEPT !.entry = e, !.self = chi]]
        /\ UNCHANGED <<fs, chi, res, src>>

ChiSampleRet(t) ==
    /\ pc[t] = "chi_g"
    /\ LET d == ChiSquared_sample(loc[t].self, src[t])
       IN /\ src' = [src EXCEPT ![t] = d.src]
          /\ loc' = [loc EXCEPT ![t].g1 = d.v, ![t].ret = d.v]
    /\ pc' = [pc EXCEPT ![t] = "done"]
    /\ UNCHANGED <<fs, chi, res>>

(***************************************************************************)
(* Specifications                                                          *)
(***************************************************************************)
Init ==
    /\ fs = NoObj
    /\ chi = NoObj
    /\ res = NoRes
    /\ pc = [t \in Threads |-> "idle"]
    /\ src = [t \in Threads |-> Source(SeedOf(t))]
    /\ loc = [t \in Threads |-> NoLoc]

NextFsMoments ==
    \/ FsNew
    \/ FsFreedom1
    \/ FsFreedom2
    \/ FsMin
    \/ FsMax
    \/ FsMean
    \/ FsVariance
    \/ FsStdDev
    \/ FsSkewness
    \/ FsMode

NextFsPdf ==
    \/ FsNew
    \/ FsPdf
    \/ FsLnPdf

NextCdf ==
    \/ FsNew
    \/ ChiNew
    \/ FsCdf
    \/ ChiCdf

NextChi ==
    \/ ChiNew
    \/ ChiFreedom
    \/ ChiShape
    \/ ChiRate
    \/ ChiMin
    \/ ChiMax
    \/ ChiMean
    \/ ChiVariance
    \/ ChiStdDev
    \/ ChiEntropy
    \/ ChiSkewness
    \/ ChiMedian
    \/ ChiMode
    \/ ChiPdf
    \/ ChiLnPdf

NextSample ==
    \/ FsNew
    \/ ChiNew
    \/ \E t \in Threads :
        \/ FsSampleCall(t)
        \/ FsSampleG1(t)
        \/ FsSampleG2(t)
        \/ FsSampleRet(t)
        \/ ChiSampleCall(t)
        \/ ChiSampleRet(t)

NextSupport ==
    \/ FsNew
    \/ ChiNew
    \/ FsMin
    \/ FsMax
    \/ ChiMin
    \/ ChiMax

NextFrame ==
    \/ FsNew
    \/ ChiNew
    \/ FsFreedom1
    \/ FsFreedom2
    \/ FsMean
    \/ ChiFreedom
    \/ ChiShape
    \/ ChiRate
    \/ ChiPdf
    \/ \E t \in Threads :
        \/ FsSampleCall(t)
        \/ FsSampleG1(t)
        \/ FsSampleG2(t)
        \/ FsSampleRet(t)
        \/ ChiSampleCall(t)
        \/ ChiSampleRet(t)

NextReentrant ==
    \E t \in Threads :
        \/ FsSampleOwn(t)
        \/ FsSampleG1(t)
        \/ FsSampleG2(t)
        \/ FsSampleRet(t)
        \/ ChiSampleOwn(t)
        \/ ChiSampleRet(t)

NextChiAll ==
    \/ NextChi
    \/ \E t \in Threads :
        \/ ChiSampleCall(t)
        \/ ChiSampleRet(t)

Next ==
    \/ NextFsMoments
    \/ NextFsPdf
    \/ NextCdf
    \/ NextChi
    \/ NextSample

Spec == Init /\ [][Next]_vars

\* the moments and accessors of FisherSnedecor
SpecFsMoments == Init /\ [][NextFsMoments]_vars

\* the density of FisherSnedecor
SpecFsPdf == Init /\ [][NextFsPdf]_vars

\* the cumulative distribution functions
SpecCdf == Init /\ [][NextCdf]_vars

\* ChiSquared
SpecChi == Init /\ [][NextChi]_vars

\* the bounds of the support of both distributions
SpecSupport == Init /\ [][NextSupport]_vars

\* accessors, a panicking query of each type and sampling, interleaved
SpecFrame == Init /\ [][NextFrame]_vars

\* two callers, each sampling a value of its own with a source of its own
SpecReentrant == Init /\ [][NextReentrant]_vars

\* ChiSquared, its queries and its sampling
SpecChiAll == Init /\ [][NextChiAll]_vars

\* sampling
SpecSample == Init /\ [][NextSample]_vars

(***************************************************************************)
(* Properties                                                              *)
(***************************************************************************)
\* v <= 0, for a value that is not NaN
NonPositive(v) == (IsInfinite(v) /\ v.n < 0) \/ (IsFinite(v) /\ v.n <= 0)

\* v > i, for a rational, subnormal or infinite v and an integer i
Exceeds(v, i) ==
    \/ v = PInf
    \/ IsFinite(v) /\ v.s = 1 /\ v.n > i * v.d
    \/ IsSubnormal(v) /\ i <= 0

OnFs(ops) == res.op \in ops /\ res.obj.tag = "FisherSnedecor"

OnChi(ops) == res.op \in ops /\ res.obj.tag = "ChiSquared"

\* C1: FisherSnedecor::new(d1, d2) is an error exactly when d1 or d2 is NaN or
\* d1 <= 0 or d2 <= 0; every other pair, +INF included, gives Ok, and the value's
\* freedom_1() and freedom_2() are the d1 and d2 passed.
C1_NewValidates ==
    /\ res.op = "FisherSnedecor::new" =>
          LET d1 == res.args[1]
              d2 == res.args[2]
              bad == IsNaN(d1) \/ IsNaN(d2) \/ NonPositive(d1) \/ NonPositive(d2)
          IN /\ (res.out.tag = "Err") <=> bad
             /\ (res.out.tag = "Ok") <=> ~bad
             /\ ~bad => /\ fs = res.out.v
                        /\ FisherSnedecor_freedom_1(fs) = Value(d1, <<>>)
                        /\ FisherSnedecor_freedom_2(fs) = Value(d2, <<>>)
    /\ OnFs({"freedom_1"}) => res.out = Value(fs.freedom_1, <<>>)
    /\ OnFs({"freedom_2"}) => res.out = Value(fs.freedom_2, <<>>)

C1_Witness ==
    /\ res.op = "FisherSnedecor::new"
    /\ res.args = <<PInf, Rat(1, 2)>>
    /\ res.out.tag = "Ok"
    /\ fs.freedom_1 = PInf

\* C3: on a constructed FisherSnedecor, mean() panics exactly when d2 <= 2,
\* variance() and std_dev() exactly when d2 <= 4, skewness() exactly when
\* d2 <= 6 and mode() exactly when d1 <= 2; otherwise each returns a value, and
\* none of them ever returns an Err.
C3_MomentPanics ==
    OnFs({"mean", "variance", "std_dev", "skewness", "mode"}) =>
        LET d1 == res.obj.freedom_1
            d2 == res.obj.freedom_2
            panics == CASE res.op = "mean" -> ~Exceeds(d2, 2)
                        [] res.op \in {"variance", "std_dev"} -> ~Exceeds(d2, 4)
                        [] res.op = "skewness" -> ~Exceeds(d2, 6)
                        [] res.op = "mode" -> ~Exceeds(d1, 2)
        IN res.out.tag = (IF panics THEN "panic" ELSE "value")

C3_Witness ==
    /\ OnFs({"skewness"})
    /\ res.obj.freedom_2 = Num(6)
    /\ res.out.tag = "panic"

InfiniteFreedom(obj) == obj.freedom_1 = PInf \/ obj.freedom_2 = PInf

\* C4 as stated: with freedom_1 or freedom_2 +INF, variance(), std_dev(),
\* skewness() and mode() return NaN and do not fail, whatever the other
\* parameter is.
C4_NaNWhateverTheOther ==
    (OnFs({"variance", "std_dev", "skewness", "mode"}) /\ InfiniteFreedom(res.obj)) =>
        (res.out.tag = "value" /\ IsNaN(res.out.v))

\* C4 as amended: with freedom_1 or freedom_2 +INF, variance(), std_dev(),
\* skewness() and mode() return NaN when the call's own requirement holds
\* (freedom_2 > 4, > 4, > 6, freedom_1 > 2), and panic when it does not.
C4_NaNWhenDefined ==
    (OnFs({"variance", "std_dev", "skewness", "mode"}) /\ InfiniteFreedom(res.obj)) =>
        LET d1 == res.obj.freedom_1
            d2 == res.obj.freedom_2
            defined == CASE res.op \in {"variance", "std_dev"} -> Exceeds(d2, 4)
                         [] res.op = "skewness" -> Exceeds(d2, 6)
                         [] res.op = "mode" -> Exceeds(d1, 2)
        IN IF defined THEN res.out.tag = "value" /\ IsNaN(res.out.v)
           ELSE res.out.tag = "panic"

C4_Witness ==
    /\ OnFs({"mode"})
    /\ res.obj.freedom_1 = PInf
    /\ res.obj.freedom_2 = Rat(1, 2)
    /\ res.out.tag = "value"
    /\ IsNaN(res.out.v)

\* C5: with d2 > 2, mean() returns d2 / (d2 - 2), the same for every d1, and
\* NaN when d2 is +INF.
C5_MeanOfD2 ==
    (OnFs({"mean"}) /\ Exceeds(res.obj.freedom_2, 2)) =>
        LET d2 == res.obj.freedom_2
        IN /\ res.out.tag = "value"
           /\ res.out.v = IF d2 = PInf THEN NaN ELSE Rat(d2.n, d2.n - 2 * d2.d)
           /\ \A e1 \in Freedoms :
                 FisherSnedecor_new(e1, d2).tag = "Ok" =>
                     FisherSnedecor_mean(FisherSnedecor_new(e1, d2).v) = res.out

C5_Witness ==
    /\ OnFs({"mean"})
    /\ res.obj.freedom_1 = Rat(1, 2)
    /\ res.obj.freedom_2 = Num(3)
    /\ res.out.v = Num(3)

\* v / 2
Half(v) ==
    IF IsFinite(v) THEN Fin(v.n, 2 * v.d, v.s)
    ELSE IF IsSubnormal(v) THEN Scaled(v.args[1], 1, 2)
    ELSE v

\* C2: ChiSquared::new(k) succeeds exactly when k is not NaN and k > 0, as
\* Gamma::new(k / 2, 0.5) decides; ChiSquared::new(0.0) is an error, and no
\* ChiSquared value has a freedom that is NaN or <= 0.
C2_ChiNewValidates ==
    /\ res.op = "ChiSquared::new" =>
          LET k == res.args[1]
              good == ~IsNaN(k) /\ ~NonPositive(k)
              g == Gamma_new(Half(k), Rat(1, 2))
          IN /\ (res.out.tag = "Ok") <=> good
             /\ (res.out.tag = "Err") <=> ~good
             /\ res.out.tag = g.tag
             /\ res.out.calls = <<Call("Gamma::new", <<Half(k), Rat(1, 2)>>)>>
             /\ good => (chi = res.out.v /\ chi.freedom = k /\ chi.g = g.v)
    /\ chi # NoObj => Exceeds(chi.freedom, 0)

\* the third argument of beta_reg, d1 * x / (d1 * x + d2), for finite d1, d2 > 0
BetaRegArg(d1, d2, x) ==
    IF IsNaN(x) THEN NaN
    ELSE LET num == d1.n * x.n * d2.d
             den == d1.n * x.n * d2.d + d2.n * d1.d * x.d
         IN IF den = 0 THEN InfOf(num) ELSE Rat(num, den)

\* C6: cdf(x) returns NaN, without calling beta_reg, when d1 or d2 is +INF or x
\* is +INF or -INF; otherwise it returns what beta_reg(d1 / 2, d2 / 2,
\* d1 * x / (d1 * x + d2)) returns.
C6_CdfNaNOrBetaReg ==
    OnFs({"cdf"}) =>
        LET d1 == res.obj.freedom_1
            d2 == res.obj.freedom_2
            x == res.args[1]
        IN IF d1 = PInf \/ d2 = PInf \/ x = PInf \/ x = NInf
           THEN res.out = Value(NaN, <<>>)
           ELSE LET z == BetaRegArg(d1, d2, x)
                    r == beta_reg(Half(d1), Half(d2), z)
                IN /\ res.out.calls = <<Call("beta_reg", <<Half(d1), Half(d2), z>>)>>
                   /\ res.out.tag = r.tag
                   /\ res.out.v = r.v

C6_Witness ==
    /\ OnFs({"cdf"})
    /\ res.obj = FisherSnedecor(Num(1), Num(1))
    /\ res.args = <<Num(1)>>
    /\ res.out.v = Term("beta_reg", <<Rat(1, 2), Rat(1, 2), Rat(1, 2)>>)

\* u <= v for two results of one distribution's cdf, given that beta_reg(a, b, .)
\* and the regularized lower incomplete gamma function of a shape are
\* non-decreasing with values in [0, 1]
MonoLe(u, v) ==
    /\ u.tag = "value"
    /\ v.tag = "value"
    /\ \/ Le(u.v, v.v)
       \/ /\ IsTerm(u.v) /\ IsTerm(v.v)
          /\ u.v.op = "beta_reg" /\ v.v.op = "beta_reg"
          /\ u.v.args[1] = v.v.args[1] /\ u.v.args[2] = v.v.args[2]
          /\ Le(u.v.args[3], v.v.args[3])
       \/ /\ IsTerm(u.v) /\ IsTerm(v.v)
          /\ u.v.op = "gamma_lower_reg" /\ v.v.op = "gamma_lower_reg"
          /\ u.v.args[1] = v.v.args[1]
          /\ Le(u.v.args[2], v.v.args[2])
       \/ u.v = Num(0) /\ IsTerm(v.v) /\ v.v.op \in {"beta_reg", "gamma_lower_reg"}
       \/ v.v = Num(1) /\ IsTerm(u.v) /\ u.v.op \in {"beta_reg", "gamma_lower_reg"}

C8_PdfPanicsBelowSupport ==
    (OnFs({"pdf", "ln_pdf"}) /\ Lt(res.args[1], Num(0))) => res.out.tag = "panic"

\* C9: a finished FisherSnedecor sample has made exactly two Gamma draws from
\* its source, first with shape d1 / 2 and rate 0.5, then, from the state the
\* first left, with shape d2 / 2 and rate 0.5, and returns (g1 * d2) / (g2 * d1);
\* no parameter is validated.
C9_TwoDrawsInOrder ==
    \A t \in Threads :
        (loc[t].self # NoObj /\ loc[t].self.tag = "FisherSnedecor") =>
            LET d1 == loc[t].self.freedom_1
                d2 == loc[t].self.freedom_2
                a == sample_unchecked(Source(SeedOf(t)), Half(d1), Rat(1, 2))
                b == sample_unchecked(a.src, Half(d2), Rat(1, 2))
            IN /\ pc[t] = "fs_g1" => src[t] = Source(SeedOf(t))
               /\ pc[t] = "fs_g2" => (src[t] = a.src /\ loc[t].g1 = a.v)
               /\ pc[t] \in {"fs_ret", "done"} =>
                     /\ src[t] = b.src
                     /\ src[t].log = <<<<Half(d1), Rat(1, 2)>>, <<Half(d2), Rat(1, 2)>>>>
                     /\ loc[t].g1 = a.v
                     /\ loc[t].g2 = b.v
               /\ pc[t] = "done" =>
                     loc[t].ret = Term("div", <<Term("mul", <<a.v, d2>>),
                                               Term("mul", <<b.v, d1>>)>>)

C9_Witness ==
    /\ pc["t1"] = "done"
    /\ loc["t1"].self = FisherSnedecor(Rat(1, 2), PInf)
    /\ Len(src["t1"].log) = 2
    /\ src["t1"].pos = 7

\* C10: median() of ChiSquared(k) is k - 2/3 + 12/(81k) - 8/(729k^2) for k < 1
\* and k - 2/3 for k >= 1; at k = 1 it is 1 - 2/3.
C10_MedianSplit ==
    OnChi({"median"}) =>
        LET k == res.obj.freedom
        IN res.out =
             Value(IF k = PInf THEN PInf
                   ELSE IF IsSubnormal(k)
                        THEN Term("add",
                               <<Term("add",
                                   <<Term("add", <<k, Rat(-2, 3)>>),
                                     Term("div", <<Num(12), Subnormal(81 * k.args[1])>>)>>),
                                 Term("neg",
                                   <<Term("div",
                                       <<Num(8),
                                         Term("mul", <<Subnormal(729 * k.args[1]), k>>)>>)>>)>>)
                   ELSE IF k.n < k.d
                        THEN Add(Add(Add(k, Rat(-2, 3)), Rat(12 * k.d, 81 * k.n)),
                                 Rat(-8 * k.d * k.d, 729 * k.n * k.n))
                   ELSE Rat(3 * k.n - 2 * k.d, 3 * k.d),
                   <<>>)

C10_Witness ==
    /\ OnChi({"median"})
    /\ res.obj.freedom = Num(1)
    /\ res.out.v = Rat(1, 3)

\* C11: median() of every ChiSquared(k) equals the documented formula
\* k * (1 - 2/(9k))^3.
C11_MedianIsDocFormula ==
    (OnChi({"median"}) /\ ~IsSubnormal(res.obj.freedom)) =>
        res.out = Value(ChiSquared_median_doc(res.obj.freedom), <<>>)

\* the queries of ChiSquared the claim lists as answered by the inner Gamma
Delegated == {"cdf", "pdf", "ln_pdf", "mean", "variance", "std_dev", "entropy",
              "skewness", "mode"}

\* what the inner Gamma g answers to query op with arguments args
GammaAnswer(op, g, args) ==
    CASE op = "cdf" -> Gamma_cdf(g, args[1])
      [] op = "pdf" -> Gamma_pdf(g, args[1])
      [] op = "ln_pdf" -> Gamma_ln_pdf(g, args[1])
      [] op = "mean" -> Gamma_mean(g)
      [] op = "variance" -> Gamma_variance(g)
      [] op = "std_dev" -> Gamma_std_dev(g)
      [] op = "entropy" -> Gamma_entropy(g)
      [] op = "skewness" -> Gamma_skewness(g)
      [] op = "mode" -> Gamma_mode(g)

\* C12: a ChiSquared(k) owns the Gamma of shape k / 2 and rate 0.5; freedom()
\* is k, shape() is k / 2, rate() is 0.5; cdf, pdf, ln_pdf, mean, variance,
\* std_dev, entropy, skewness, mode and sample return what that Gamma returns
\* for the same argument (same panic, same value, same draws), each through
\* one call of it; median makes no call of the inner Gamma.
C12_DelegatesToGamma ==
    /\ chi # NoObj => chi.g = Gamma(Half(chi.freedom), Rat(1, 2))
    /\ OnChi({"freedom"}) => res.out = Value(res.obj.freedom, <<>>)
    /\ OnChi({"shape"}) =>
          (res.out.tag = "value" /\ res.out.v = Half(res.obj.freedom))
    /\ OnChi({"rate"}) => (res.out.tag = "value" /\ res.out.v = Rat(1, 2))
    /\ OnChi(Delegated) =>
          LET a == GammaAnswer(res.op, res.obj.g, res.args)
          IN /\ res.out.tag = a.tag
             /\ res.out.v = a.v
             /\ res.out.calls = <<Call("Gamma::" \o res.op, <<res.obj.g>> \o res.args)>>
    /\ OnChi({"median"}) => res.out.calls = <<>>
    /\ \A t \in Threads :
          (pc[t] = "done" /\ loc[t].self.tag = "ChiSquared") =>
              LET d == Gamma_sample(loc[t].self.g, Source(SeedOf(t)))
              IN /\ loc[t].ret = d.v
                 /\ src[t] = d.src

C12_Witness ==
    /\ OnChi({"pdf"})
    /\ res.obj.freedom = Rat(1, 2)
    /\ res.args = <<Num(-1)>>
    /\ res.out.tag = "panic"
    /\ pc["t2"] = "done"
    /\ src["t2"].pos = 5
    /\ src["t2"].log = <<<<Rat(1, 4), Rat(1, 2)>>>>

\* C13: for every ChiSquared(k), mean() is k and variance() is 2k.
C13_MeanIsK ==
    /\ OnChi({"mean"}) =>
          (res.out.tag = "value" /\ res.out.v = res.obj.freedom)
    /\ OnChi({"variance"}) =>
          (res.out.tag = "value" /\ res.out.v = Mul(Num(2), res.obj.freedom))

\* C14: min() of every FisherSnedecor and every ChiSquared returns 0.0 and
\* max() returns +INF, whatever the parameters, and neither ever panics.
C14_MinMax ==
    /\ (OnFs({"min"}) \/ OnChi({"min"})) => res.out = Value(Num(0), <<>>)
    /\ (OnFs({"max"}) \/ OnChi({"max"})) => res.out = Value(PInf, <<>>)

C14_Witness ==
    /\ OnFs({"min"})
    /\ res.obj = FisherSnedecor(PInf, PInf)
    /\ res.out.v = Num(0)

\* C15: no operation on a constructed FisherSnedecor or ChiSquared (a query,
\* panicking or not, or a sampling call through any of the three entries)
\* changes the value: the accessors keep returning the stored parameters, and
\* the only state a step changes besides the call's own result is the source
\* of the caller that is drawing.
C15_Frame ==
    [][/\ fs # NoObj => fs' = fs
       /\ chi # NoObj => chi' = chi
       /\ (fs # NoObj /\ res'.op = "freedom_1" /\ res' # res) =>
              res'.out = Value(fs.freedom_1, <<>>)
       /\ (fs # NoObj /\ res'.op = "freedom_2" /\ res' # res) =>
              res'.out = Value(fs.freedom_2, <<>>)
       /\ (chi # NoObj /\ res'.op = "freedom" /\ res' # res) =>
              res'.out.v = chi.freedom
       /\ (chi # NoObj /\ res'.op = "shape" /\ res' # res) =>
              res'.out.v = chi.g.shape
       /\ (chi # NoObj /\ res'.op = "rate" /\ res' # res) =>
              res'.out.v = chi.g.rate
       /\ src' # src =>
              \E t \in Threads :
                  /\ pc[t] \in {"fs_g1", "fs_g2", "chi_g"}
                  /\ pc'[t] # pc[t]
                  /\ \A u \in Threads \ {t} : src'[u] = src[u]
      ]_vars

C15_Witness ==
    /\ pc["t1"] = "done"
    /\ loc["t1"].entry = "Sample::sample"
    /\ src["t1"].pos > 0
    /\ fs = FisherSnedecor(Num(1), Num(2))
    /\ loc["t1"].self = fs
    /\ OnFs({"mean"})
    /\ res.out.tag = "panic"

\* C16: with two sampling calls interleaved draw by draw, each on its own
\* source, a call that has not drawn yet finds its source untouched, and a
\* finished call has returned the value and left its source in the state that
\* the same call run alone from the fresh source gives.
C16_Reentrant ==
    \A t \in Threads :
        LET r0 == Source(SeedOf(t))
            self == loc[t].self
        IN /\ pc[t] \in {"idle", "fs_g1", "chi_g"} => src[t] = r0
           /\ (pc[t] = "done" /\ self.tag = "FisherSnedecor") =>
                 /\ loc[t].ret = FisherSnedecor_sample(self, r0).v
                 /\ src[t] = FisherSnedecor_sample(self, r0).src
           /\ (pc[t] = "done" /\ self.tag = "ChiSquared") =>
                 /\ loc[t].ret = ChiSquared_sample(self, r0).v
                 /\ src[t] = ChiSquared_sample(self, r0).src

C16_Witness ==
    /\ pc["t1"] = "done"
    /\ pc["t2"] = "done"
    /\ loc["t1"].self = FisherSnedecor(Rat(1, 2), PInf)
    /\ loc["t2"].self.tag = "ChiSquared"
    /\ loc["t2"].self.freedom = Num(3)
    /\ src["t1"].pos = 7
    /\ src["t2"].pos = 4

\* C17: the median of every ChiSquared(k) lies inside the reported support:
\* min() <= median() <= max().
C17_MedianInSupport ==
    (OnChi({"median"}) /\ ~IsSubnormal(res.obj.freedom)) =>
        /\ res.out.tag = "value"
        /\ Le(ChiSquared_min(res.obj).v, res.out.v)
        /\ Le(res.out.v, ChiSquared_max(res.obj).v)

====
